---- MODULE Spec2Model ----
(***************************************************************************)
(* ACME account lifecycle of kube-lego, pkg/acme/user.go: createUser,      *)
(* getUser, validateUser and generatePrivateKey, run against a key-value   *)
(* account store (the kubelego secret) and an ACME authority.              *)
(***************************************************************************)
EXTENDS Naturals, Sequences, FiniteSets, TLC

VARIABLES
    kubelego,    \* configuration provider: LegoEmail, LegoKeyType, LegoKeySize
    store,       \* the account secret: a map from store keys to bytes
    accounts,    \* the authority's registrations: URI -> [key, contact]
    pc,          \* position of the provisioning run
    client,      \* *acme.Client built by createUser / getUser
    accountURI,  \* URI returned by getUser
    account,     \* *acme.Account returned by createUser / validateUser
    err,         \* error returned by the last function
    last,        \* the function that returned last in this run
    calls,       \* this run's calls to the authority and store writes, in order
    log,         \* this run's Infof lines, in order
    start,       \* store, authority and validated as they were when the run began
    persisted,   \* the signer and URI of the last successful createUser
    validated    \* account and email of the last successful validateUser, no outside change since

vars == <<kubelego, store, accounts, pc, client, accountURI, account,
          err, last, calls, log, start, persisted, validated>>

----------------------------------------------------------------------------
(* Bounds *)

MaxAccounts == 2

----------------------------------------------------------------------------
(* Configuration values *)

KeyTypeRsa == "rsa"
KeyTypeEc == "ec"
KeyTypes == {KeyTypeRsa, KeyTypeEc}
KeySizes == {224, 256, 384, 512, 521, 2048}

\* Strings that the code transforms are sequences of characters.
Emails == { <<"a", "@", "x">>, <<"A", "@", "x">>, <<"b", "@", "x">> }

LegoURL == "https://acme.example/directory"

\* Store keys of the account secret.
AcmePrivateKey == "AcmePrivateKey"
AcmeRegistrationUrl == "AcmeRegistrationUrl"
AcmeRegistration == "AcmeRegistration"

----------------------------------------------------------------------------
(* Errors *)

NoError == "nil"
ErrStoreRead == "AcmeUser: store read failed"
ErrNoPrivateKey == "could not find acme private key"
ErrParseKey == "x509: failed to parse private key"
ErrNoAccountURI == "could not find an ACME account URI in the account secret"
ErrJson == "json: cannot unmarshal"
ErrGenerate == "key generation failed"
ErrRegister == "acme: register failed"
ErrSave == "SaveAcmeUser failed"
ErrGetReg == "failed to retrieve ACME account"
ErrUpdateReg == "failed to update ACME account's contact"
ErrPanic == "panic: nil pointer dereference"

----------------------------------------------------------------------------
(* Keys, DER and PEM *)

NoKey == [family |-> "none", bits |-> 0, curve |-> "", id |-> 0]

EcCurve_No521(size) ==
    CASE size = 224 -> "P224"
      [] size = 256 -> "P256"
      [] size = 384 -> "P384"
      [] OTHER -> "P384"

EcCurve(size) ==
    CASE size = 224 -> "P224"
      [] size = 256 -> "P256"
      [] size = 384 -> "P384"
      [] size = 521 -> "P521"
      [] OTHER -> "P384"

RsaGenerateKey(bits, id) == [family |-> "rsa", bits |-> bits, curve |-> "", id |-> id]

EcdsaGenerateKey(curve, id) == [family |-> "ec", bits |-> 0, curve |-> curve, id |-> id]

MarshalPKCS1PrivateKey(key) == [enc |-> "PKCS1", key |-> key]

MarshalECPrivateKey(key) == [enc |-> "SEC1", key |-> key]

JunkDer == [enc |-> "junk", key |-> NoKey]

\* x509.ParsePKCS1PrivateKey: only a PKCS#1 structure parses.
ParsePKCS1PrivateKey(der) ==
    IF der.enc = "PKCS1"
    THEN [key |-> der.key, err |-> NoError]
    ELSE [key |-> NoKey, err |-> ErrParseKey]

\* x509.ParseECPrivateKey, the EC family's parse routine: only SEC 1 parses.
ParseECPrivateKey(der) ==
    IF der.enc = "SEC1"
    THEN [key |-> der.key, err |-> NoError]
    ELSE [key |-> NoKey, err |-> ErrParseKey]

PemEncodeToMemory(block) == [pem |-> TRUE, Type |-> block.Type, Bytes |-> block.Bytes]

NotPem == [pem |-> FALSE, Type |-> "", Bytes |-> JunkDer]

\* pem.Decode: the block, or nil when the data holds no PEM block.
PemDecode(data) ==
    IF data.pem
    THEN [nil |-> FALSE, Type |-> data.Type, Bytes |-> data.Bytes]
    ELSE [nil |-> TRUE, Type |-> "", Bytes |-> JunkDer]

generatePrivateKey_RsaTagForEc(id) ==
    IF kubelego.LegoKeyType = KeyTypeRsa
    THEN LET privateKey == RsaGenerateKey(kubelego.LegoKeySize, id)
             block == [Type |-> "RSA PRIVATE KEY",
                       Bytes |-> MarshalPKCS1PrivateKey(privateKey)]
         IN  [pem |-> PemEncodeToMemory(block), key |-> privateKey]
    ELSE LET ecpk == EcdsaGenerateKey(EcCurve(kubelego.LegoKeySize), id)
             block == [Type |-> "RSA PRIVATE KEY", Bytes |-> MarshalECPrivateKey(ecpk)]
         IN  [pem |-> PemEncodeToMemory(block), key |-> ecpk]

\* generatePrivateKey, drawing the id-th key from the random source.
generatePrivateKey(id) ==
    IF kubelego.LegoKeyType = KeyTypeRsa
    THEN LET privateKey == RsaGenerateKey(kubelego.LegoKeySize, id)
             block == [Type |-> "RSA PRIVATE KEY",
                       Bytes |-> MarshalPKCS1PrivateKey(privateKey)]
         IN  [pem |-> PemEncodeToMemory(block), key |-> privateKey]
    ELSE LET ecpk == EcdsaGenerateKey(EcCurve(kubelego.LegoKeySize), id)
             block == [Type |-> "EC PRIVATE KEY", Bytes |-> MarshalECPrivateKey(ecpk)]
         IN  [pem |-> PemEncodeToMemory(block), key |-> ecpk]

----------------------------------------------------------------------------
(* Contact *)

ToLowerChar(c) ==
    CASE c = "A" -> "a"
      [] c = "B" -> "b"
      [] c = "X" -> "x"
      [] OTHER -> c

ToLower(s) == [i \in 1..Len(s) |-> ToLowerChar(s[i])]

getContact_NoLower == << <<"mailto:">> \o kubelego.LegoEmail >>

getContact == << <<"mailto:">> \o ToLower(kubelego.LegoEmail) >>

\* Terms-of-service URLs the authority may present.
TosURL == "https://acme.example/terms/v1"
TosURL2 == "https://acme.example/terms/v2"
TosURLs == {TosURL, TosURL2}

\* A line written with a.Log().Infof: the message and its argument.
Infof(msg, arg) == [level |-> "info", msg |-> msg, arg |-> arg]

MsgTos == "if you don't accept the TOS (%s) please exit the program now"
MsgCreated == "created an ACME account (registration url: %s)"
MsgUpdated == "updated ACME account's contact to '%s'"

\* The line acceptTos logs before it returns.
acceptTosLog(tos) == Infof(MsgTos, tos)

acceptTos_DeclineNewTerms(tos) == tos = TosURL

acceptTos(tos) == TRUE

----------------------------------------------------------------------------
(* The authority *)


UriOf(n) == <<"acct/1", "acct/2", "acct/3", "acct/4", "acct/5">>[n]

\* An account registered before this program ran, and a URI the authority does not know.
PreUri == "acct/0"
UnknownUri == "acct/legacy"
PreKey == RsaGenerateKey(2048, 0)

MailtoA == <<"mailto:", "a", "@", "x">>
MailtoB == <<"mailto:", "b", "@", "x">>
ContactLists == { <<>>, <<MailtoA>>, <<MailtoB>>, <<MailtoA, MailtoB>> }

\* Accounts created by Register calls of this program.
Registered == DOMAIN accounts \ {PreUri}

NilClient == [Key |-> NoKey, DirectoryURL |-> ""]
NilAccount == [URI |-> "", Contact |-> <<>>, AgreedTerms |-> ""]

Call(op, key, uri, contact, ok) ==
    [op |-> op, key |-> key, uri |-> uri, contact |-> contact, ok |-> ok]

\* client.Register: the authority presents its terms to the prompt and, when
\* they are agreed, assigns the next URI to the signer's key.
Register(c, acct, tos, agreed, ok) ==
    IF ok /\ agreed
    THEN LET uri == UriOf(Cardinality(Registered) + 1)
         IN  [account |-> [URI |-> uri, Contact |-> acct.Contact, AgreedTerms |-> tos],
              err |-> NoError,
              accounts |-> (uri :> [key |-> c.Key, contact |-> acct.Contact,
                                    terms |-> tos]) @@ accounts]
    ELSE [account |-> NilAccount, err |-> ErrRegister, accounts |-> accounts]

\* client.GetReg: the registration at uri, for the key that owns it.
GetReg(c, uri, ok) ==
    IF ok /\ uri \in DOMAIN accounts /\ accounts[uri].key = c.Key
    THEN [account |-> [URI |-> uri, Contact |-> accounts[uri].contact,
                       AgreedTerms |-> accounts[uri].terms],
          err |-> NoError]
    ELSE [account |-> NilAccount, err |-> ErrGetReg]

\* client.UpdateReg: the authority records the account as sent.
UpdateReg(c, acct, ok) ==
    IF ok /\ acct.URI \in DOMAIN accounts /\ accounts[acct.URI].key = c.Key
    THEN [account |-> acct, err |-> NoError,
          accounts |-> [accounts EXCEPT ![acct.URI].contact = acct.Contact,
                                        ![acct.URI].terms = acct.AgreedTerms]]
    ELSE [account |-> NilAccount, err |-> ErrUpdateReg, accounts |-> accounts]

----------------------------------------------------------------------------
(* The account store *)

EmptyStore == [k \in {} |-> NotPem]

Json(uri) == [valid |-> TRUE, hasURI |-> TRUE, URI |-> uri]
JsonNoUri == [valid |-> TRUE, hasURI |-> FALSE, URI |-> ""]
JsonMalformed == [valid |-> FALSE, hasURI |-> FALSE, URI |-> ""]

\* json.Unmarshal into acmeAccountRegistration: an absent URI field leaves "".
JsonUnmarshal(data) ==
    IF data.valid
    THEN [URI |-> IF data.hasURI THEN data.URI ELSE "", err |-> NoError]
    ELSE [URI |-> "", err |-> ErrJson]

PreKeyPem ==
    PemEncodeToMemory([Type |-> "RSA PRIVATE KEY", Bytes |-> MarshalPKCS1PrivateKey(PreKey)])
JunkPem == PemEncodeToMemory([Type |-> "RSA PRIVATE KEY", Bytes |-> JunkDer])

\* Stores the program can find when it starts: none, one written by this or an
\* older version, and damaged ones.
InitStores ==
    { EmptyStore,
      (AcmePrivateKey :> PreKeyPem) @@ (AcmeRegistrationUrl :> PreUri),
      (AcmePrivateKey :> PreKeyPem) @@ (AcmeRegistration :> Json(PreUri)),
      (AcmePrivateKey :> PreKeyPem) @@ (AcmeRegistrationUrl :> PreUri)
          @@ (AcmeRegistration :> Json(UnknownUri)),
      (AcmePrivateKey :> PreKeyPem) @@ (AcmeRegistrationUrl :> ""),
      (AcmePrivateKey :> PreKeyPem) @@ (AcmeRegistration :> JsonNoUri),
      (AcmePrivateKey :> PreKeyPem) @@ (AcmeRegistration :> JsonMalformed),
      (AcmePrivateKey :> PreKeyPem),
      (AcmeRegistrationUrl :> PreUri),
      (AcmePrivateKey :> NotPem) @@ (AcmeRegistrationUrl :> PreUri),
      (AcmePrivateKey :> NotPem),
      (AcmePrivateKey :> JunkPem) @@ (AcmeRegistrationUrl :> PreUri) }

\* kubelego.SaveAcmeUser: the secret's data becomes the map given.
SaveAcmeUser(data, ok) ==
    IF ok THEN [store |-> data, err |-> NoError] ELSE [store |-> store, err |-> ErrSave]

----------------------------------------------------------------------------
(* The provisioning run *)

Terminal == {"Provisioned", "Failed", "Panicked"}

NoPersisted == [key |-> NoKey, uri |-> ""]
NoValidation == [uri |-> "", email |-> <<>>]

Init ==
    /\ kubelego \in [LegoEmail : Emails, LegoKeyType : KeyTypes, LegoKeySize : KeySizes]
    /\ store \in InitStores
    /\ accounts = (PreUri :> [key |-> PreKey, contact |-> <<MailtoA>>, terms |-> TosURL])
    /\ pc = "Idle"
    /\ client = NilClient
    /\ accountURI = ""
    /\ account = NilAccount
    /\ err = NoError
    /\ last = "none"
    /\ calls = <<>>
    /\ log = <<>>
    /\ start = [store |-> store, accounts |-> accounts, validated |-> NoValidation]
    /\ persisted = NoPersisted
    /\ validated = NoValidation

\* The provisioner begins a run by loading the stored account.
Provision ==
    /\ pc = "Idle"
    /\ pc' = "Loading"
    /\ start' = [store |-> store, accounts |-> accounts, validated |-> validated]
    /\ UNCHANGED <<kubelego, store, accounts, client, accountURI, account,
                   err, last, calls, log, persisted, validated>>

\* Where the provisioner goes with getUser's result: validation when the account
\* loaded, registration when the store holds no key, failure otherwise.
AfterGetUser(e) ==
    CASE e = NoError -> "Validating"
      [] e = ErrNoPrivateKey -> "Registering"
      [] e = ErrPanic -> "Panicked"
      [] OTHER -> "Failed"

LoadPrivateKey_WrongStoreKey(userData) ==
    IF AcmeRegistration \notin DOMAIN userData
    THEN [key |-> NoKey, err |-> ErrNoPrivateKey]
    ELSE LET block == PemDecode(userData[AcmePrivateKey]) IN
         IF block.nil
         THEN [key |-> NoKey, err |-> ErrPanic]
         ELSE ParsePKCS1PrivateKey(block.Bytes)

\* getUser's lookup and decoding of the private key.
LoadPrivateKey(userData) ==
    IF AcmePrivateKey \notin DOMAIN userData
    THEN [key |-> NoKey, err |-> ErrNoPrivateKey]
    ELSE LET block == PemDecode(userData[AcmePrivateKey]) IN
         IF block.nil
         THEN [key |-> NoKey, err |-> ErrPanic]
         ELSE ParsePKCS1PrivateKey(block.Bytes)

ResolveAccountURI_LegacyFirst(userData) ==
    IF AcmeRegistration \in DOMAIN userData
    THEN JsonUnmarshal(userData[AcmeRegistration])
    ELSE IF AcmeRegistrationUrl \notin DOMAIN userData
    THEN [URI |-> "", err |-> ErrNoAccountURI]
    ELSE [URI |-> userData[AcmeRegistrationUrl], err |-> NoError]

\* getUser's resolution of the account URI: the direct entry, else the legacy blob.
ResolveAccountURI(userData) ==
    IF AcmeRegistrationUrl \in DOMAIN userData
    THEN [URI |-> userData[AcmeRegistrationUrl], err |-> NoError]
    ELSE IF AcmeRegistration \notin DOMAIN userData
    THEN [URI |-> "", err |-> ErrNoAccountURI]
    ELSE JsonUnmarshal(userData[AcmeRegistration])

\* What getUser returns for the store's data.
getUserResult(readOk) ==
    LET userData == store
        failed(e) == [client |-> NilClient, accountURI |-> "", err |-> e]
        loaded == LoadPrivateKey(userData)
        reg == ResolveAccountURI(userData)
    IN
    IF ~readOk THEN failed(ErrStoreRead)
    ELSE IF loaded.err # NoError THEN failed(loaded.err)
    ELSE IF reg.err # NoError THEN failed(reg.err)
    ELSE [client |-> [Key |-> loaded.key, DirectoryURL |-> LegoURL],
          accountURI |-> reg.URI, err |-> NoError]

getUser ==
    /\ pc = "Loading"
    /\ \E readOk \in BOOLEAN :
         LET r == getUserResult(readOk) IN
         /\ client' = r.client
         /\ accountURI' = r.accountURI
         /\ err' = r.err
         /\ pc' = AfterGetUser(r.err)
    /\ last' = "getUser"
    /\ UNCHANGED <<kubelego, store, accounts, account, calls, log, start,
                   persisted, validated>>

\* The random source never repeats a key: the next one differs from every key
\* the authority or the store knows.
FreshKeyId == Cardinality(DOMAIN accounts) + 1

UserData_UrlUnderLegacyKey(privateKeyPem, uri) ==
    (AcmePrivateKey :> privateKeyPem) @@ (AcmeRegistration :> uri)

UserData_KeyOnly(privateKeyPem, uri) == (AcmePrivateKey :> privateKeyPem)

\* The map createUser hands to SaveAcmeUser.
UserData(privateKeyPem, uri) ==
    (AcmePrivateKey :> privateKeyPem) @@ (AcmeRegistrationUrl :> uri)

createUserResult_IgnoreRegisterError(tos, genOk, regOk, saveOk) ==
    LET g == generatePrivateKey(FreshKeyId)
        genCall == ("pem" :> g.pem) @@ Call("generatePrivateKey", g.key, "", <<>>, genOk)
        c == [Key |-> g.key, DirectoryURL |-> LegoURL]
        req == [URI |-> "", Contact |-> getContact, AgreedTerms |-> ""]
        agreed == acceptTos(tos)
        reg == Register(c, req, tos, agreed, regOk)
        regCall == ("tos" :> tos) @@ ("agreed" :> agreed) @@ ("returned" :> reg.account)
                   @@ Call("Register", c.Key, "", req.Contact, reg.err = NoError)
        tosLine == acceptTosLog(tos)
        createdLine == Infof(MsgCreated, reg.account.URI)
        saved == SaveAcmeUser(UserData(g.pem, reg.account.URI), saveOk)
        saveCall == Call("SaveAcmeUser", c.Key, reg.account.URI, <<>>, saved.err = NoError)
        base == [client |-> NilClient, account |-> NilAccount, err |-> NoError,
                 accounts |-> accounts, store |-> store,
                 calls |-> calls, log |-> log, persisted |-> persisted]
    IN
    IF ~genOk
    THEN [base EXCEPT !.err = ErrGenerate,
                      !.calls = Append(calls, [genCall EXCEPT !.key = NoKey,
                                                              !.pem = NotPem])]
    ELSE IF saved.err # NoError
    THEN [base EXCEPT !.err = saved.err,
                      !.accounts = reg.accounts,
                      !.calls = calls \o <<genCall, regCall, saveCall>>,
                      !.log = log \o <<tosLine, createdLine>>]
    ELSE [base EXCEPT !.client = c, !.account = reg.account,
                      !.accounts = reg.accounts, !.store = saved.store,
                      !.calls = calls \o <<genCall, regCall, saveCall>>,
                      !.log = log \o <<tosLine, createdLine>>,
                      !.persisted = [key |-> c.Key, uri |-> reg.account.URI]]

\* What createUser does, given the outcome of each step it may reach.
createUserResult(tos, genOk, regOk, saveOk) ==
    LET g == generatePrivateKey(FreshKeyId)
        genCall == ("pem" :> g.pem) @@ Call("generatePrivateKey", g.key, "", <<>>, genOk)
        c == [Key |-> g.key, DirectoryURL |-> LegoURL]
        req == [URI |-> "", Contact |-> getContact, AgreedTerms |-> ""]
        agreed == acceptTos(tos)
        reg == Register(c, req, tos, agreed, regOk)
        regCall == ("tos" :> tos) @@ ("agreed" :> agreed) @@ ("returned" :> reg.account)
                   @@ Call("Register", c.Key, "", req.Contact, reg.err = NoError)
        tosLine == acceptTosLog(tos)
        createdLine == Infof(MsgCreated, reg.account.URI)
        saved == SaveAcmeUser(UserData(g.pem, reg.account.URI), saveOk)
        saveCall == Call("SaveAcmeUser", c.Key, reg.account.URI, <<>>, saved.err = NoError)
        base == [client |-> NilClient, account |-> NilAccount, err |-> NoError,
                 accounts |-> accounts, store |-> store,
                 calls |-> calls, log |-> log, persisted |-> persisted]
    IN
    IF ~genOk
    THEN [base EXCEPT !.err = ErrGenerate,
                      !.calls = Append(calls, [genCall EXCEPT !.key = NoKey,
                                                              !.pem = NotPem])]
    ELSE IF reg.err # NoError
    THEN [base EXCEPT !.err = reg.err,
                      !.calls = calls \o <<genCall, regCall>>,
                      !.log = Append(log, tosLine)]
    ELSE IF saved.err # NoError
    THEN [base EXCEPT !.err = saved.err,
                      !.accounts = reg.accounts,
                      !.calls = calls \o <<genCall, regCall, saveCall>>,
                      !.log = log \o <<tosLine, createdLine>>]
    ELSE [base EXCEPT !.client = c, !.account = reg.account,
                      !.accounts = reg.accounts, !.store = saved.store,
                      !.calls = calls \o <<genCall, regCall, saveCall>>,
                      !.log = log \o <<tosLine, createdLine>>,
                      !.persisted = [key |-> c.Key, uri |-> reg.account.URI]]

createUser ==
    /\ pc = "Registering"
    /\ \E tos \in TosURLs,
          genOk \in BOOLEAN,
          regOk \in (IF Cardinality(Registered) < MaxAccounts THEN BOOLEAN ELSE {FALSE}),
          saveOk \in BOOLEAN :
         LET r == createUserResult(tos, genOk, regOk, saveOk) IN
         /\ client' = r.client
         /\ account' = r.account
         /\ err' = r.err
         /\ accounts' = r.accounts
         /\ store' = r.store
         /\ calls' = r.calls
         /\ log' = r.log
         /\ persisted' = r.persisted
         /\ pc' = IF r.err = NoError THEN "Provisioned" ELSE "Failed"
    /\ last' = "createUser"
    /\ UNCHANGED <<kubelego, accountURI, start, validated>>

DeepEqual_FirstElement(a, b) == a # <<>> /\ b # <<>> /\ a[1] = b[1]

DeepEqual_Never(a, b) == FALSE

DeepEqual_SameLength(a, b) == Len(a) = Len(b)

\* reflect.DeepEqual on two []string: equal as ordered sequences.
DeepEqual(a, b) == a = b

\* What validateUser does, given the outcome of each call it may reach.
validateUserResult(c, uri, fetchOk, updateOk) ==
    LET got == GetReg(c, uri, fetchOk)
        getCall == Call("GetReg", c.Key, uri, got.account.Contact, got.err = NoError)
        contact == getContact
        changed == [got.account EXCEPT !.Contact = contact]
        upd == UpdateReg(c, changed, updateOk)
        updCall == ("sent" :> changed) @@ ("fetched" :> got.account)
                   @@ Call("UpdateReg", c.Key, changed.URI, changed.Contact, upd.err = NoError)
    IN
    IF got.err # NoError
    THEN [account |-> NilAccount, err |-> ErrGetReg, accounts |-> accounts,
          calls |-> Append(calls, getCall), log |-> log]
    ELSE IF ~DeepEqual(got.account.Contact, contact)
    THEN IF upd.err # NoError
         THEN [account |-> NilAccount, err |-> ErrUpdateReg, accounts |-> accounts,
               calls |-> calls \o <<getCall, updCall>>, log |-> log]
         ELSE [account |-> upd.account, err |-> NoError, accounts |-> upd.accounts,
               calls |-> calls \o <<getCall, updCall>>,
               log |-> Append(log, Infof(MsgUpdated, contact))]
    ELSE [account |-> got.account, err |-> NoError, accounts |-> accounts,
          calls |-> Append(calls, getCall), log |-> log]

validateUser_Resave ==
    /\ pc = "Validating"
    /\ \E fetchOk \in BOOLEAN, updateOk \in BOOLEAN :
         LET r == validateUserResult(client, accountURI, fetchOk, updateOk) IN
         /\ account' = r.account
         /\ err' = r.err
         /\ accounts' = r.accounts
         /\ calls' = r.calls
         /\ log' = r.log
         /\ pc' = IF r.err = NoError THEN "Provisioned" ELSE "Failed"
         /\ validated' = IF r.err = NoError
                         THEN [uri |-> accountURI, email |-> kubelego.LegoEmail]
                         ELSE validated
    /\ last' = "validateUser"
    /\ store' = IF err' = NoError
                THEN (AcmeRegistrationUrl :> accountURI) @@ store
                ELSE store
    /\ UNCHANGED <<kubelego, client, accountURI, start, persisted>>

validateUser ==
    /\ pc = "Validating"
    /\ \E fetchOk \in BOOLEAN, updateOk \in BOOLEAN :
         LET r == validateUserResult(client, accountURI, fetchOk, updateOk) IN
         /\ account' = r.account
         /\ err' = r.err
         /\ accounts' = r.accounts
         /\ calls' = r.calls
         /\ log' = r.log
         /\ pc' = IF r.err = NoError THEN "Provisioned" ELSE "Failed"
         /\ validated' = IF r.err = NoError
                         THEN [uri |-> accountURI, email |-> kubelego.LegoEmail]
                         ELSE validated
    /\ last' = "validateUser"
    /\ UNCHANGED <<kubelego, store, client, accountURI, start, persisted>>

\* The process ends (or has crashed) and is started again later.
Restart ==
    /\ pc \in Terminal
    /\ pc' = "Idle"
    /\ client' = NilClient
    /\ accountURI' = ""
    /\ account' = NilAccount
    /\ err' = NoError
    /\ last' = "none"
    /\ calls' = <<>>
    /\ log' = <<>>
    /\ start' = [store |-> store, accounts |-> accounts, validated |-> validated]
    /\ UNCHANGED <<kubelego, store, accounts, persisted, validated>>

\* The operator changes the configured email between runs.
Reconfigure ==
    /\ pc = "Idle"
    /\ \E email \in Emails :
         /\ email # kubelego.LegoEmail
         /\ kubelego' = [kubelego EXCEPT !.LegoEmail = email]
    /\ UNCHANGED <<store, accounts, pc, client, accountURI, account, err,
                   last, calls, log, start, persisted, validated>>

\* Someone else changes the contact of the stored account at the authority
\* between runs (accounts the store does not name are never read again).
AuthorityChange ==
    /\ pc = "Idle"
    /\ \E uri \in DOMAIN accounts, contacts \in ContactLists :
         /\ uri = ResolveAccountURI(store).URI
         /\ contacts # accounts[uri].contact
         /\ accounts' = [accounts EXCEPT ![uri].contact = contacts]
    /\ validated' = NoValidation
    /\ start' = [store |-> store, accounts |-> accounts', validated |-> NoValidation]
    /\ UNCHANGED <<kubelego, store, pc, client, accountURI, account, err,
                   last, calls, log, persisted>>

Next ==
    \/ Provision
    \/ getUser
    \/ createUser
    \/ validateUser
    \/ Restart
    \/ Reconfigure
    \/ AuthorityChange

Spec == Init /\ [][Next]_vars

\* The same program started with no account data in the store.
InitFresh == Init /\ store = EmptyStore

SpecFresh == InitFresh /\ [][Next]_vars

----------------------------------------------------------------------------
(* Properties *)

Ops == [i \in 1..Len(calls) |-> calls[i].op]

CallsOf(op) == SelectSeq(calls, LAMBDA c : c.op = op)

AllCallsOk == \A i \in 1..Len(calls) : calls[i].ok

\* C1: from a store with no account data, a run in which key generation,
\* Register and the store write all succeed makes exactly one Register call and
\* exactly one store write, and then the store holds the PEM of the generated
\* key and the URI that Register returned.
C1_FreshProvisioning ==
    (last = "createUser" /\ start.store = EmptyStore /\ AllCallsOk)
    => /\ Ops = <<"generatePrivateKey", "Register", "SaveAcmeUser">>
       /\ pc = "Provisioned"
       /\ DOMAIN store = {AcmePrivateKey, AcmeRegistrationUrl}
       /\ store[AcmePrivateKey].pem
       /\ store[AcmePrivateKey].Bytes.key = calls[1].key
       /\ calls[2].key = calls[1].key
       /\ store[AcmeRegistrationUrl] = account.URI
       /\ account.URI \in DOMAIN accounts \ DOMAIN start.accounts
       /\ accounts[account.URI].key = calls[1].key

C1_Witness ==
    /\ last = "createUser"
    /\ start.store = EmptyStore
    /\ pc = "Provisioned"
    /\ Len(CallsOf("Register")) = 1
    /\ Len(CallsOf("SaveAcmeUser")) = 1

\* C2: for every key type and size, once createUser has persisted an account,
\* every later getUser that reads the unchanged store succeeds and yields the
\* private key that registered and the URI that was persisted.
C2_PersistedKeyLoads ==
    (last = "getUser" /\ persisted # NoPersisted /\ err # ErrStoreRead)
    => /\ err = NoError
       /\ client.Key = persisted.key
       /\ accountURI = persisted.uri

\* The store the run began with is the one an earlier successful createUser wrote.
PopulatedAtStart ==
    /\ persisted # NoPersisted
    /\ AcmeRegistrationUrl \in DOMAIN start.store
    /\ start.store[AcmeRegistrationUrl] = persisted.uri

\* C3: a run against a store populated by an earlier successful run makes no
\* Register call, at most one GetReg call and at most one UpdateReg call, for
\* every key type and size.
C3_PopulatedStoreRun ==
    PopulatedAtStart
    => /\ CallsOf("Register") = <<>>
       /\ Len(CallsOf("GetReg")) <= 1
       /\ Len(CallsOf("UpdateReg")) <= 1

C3_Witness ==
    /\ PopulatedAtStart
    /\ last = "validateUser"
    /\ Ops = <<"GetReg", "UpdateReg">>

\* C4: when the private-key entry is present but is not PEM, getUser returns an
\* error to its caller without any call to the authority; it does not crash.
C4_MalformedPemReturnsError ==
    (/\ last = "getUser"
     /\ err # ErrStoreRead
     /\ AcmePrivateKey \in DOMAIN store
     /\ ~store[AcmePrivateKey].pem)
    => /\ pc = "Failed"
       /\ err \notin {NoError, ErrPanic}
       /\ calls = <<>>

\* C5: once a Register call has succeeded for the account, no later run
\* generates a new key or calls Register again, whatever failed in between.
C5_NeverReRegistered ==
    (DOMAIN start.accounts \ {PreUri} # {})
    => \A i \in 1..Len(calls) :
          /\ ~(calls[i].op = "generatePrivateKey" /\ calls[i].ok)
          /\ calls[i].op # "Register"

\* C6: a store that starts empty and is written only by this program holds
\* either both the private-key entry and the registration-URI entry or neither.
C6_KeyAndUriTogether ==
    (AcmePrivateKey \in DOMAIN store) <=> (AcmeRegistrationUrl \in DOMAIN store)

C6_Witness ==
    /\ last = "createUser"
    /\ DOMAIN store = {AcmePrivateKey, AcmeRegistrationUrl}
    /\ Len(CallsOf("SaveAcmeUser")) = 1

\* C7: after a successful fetch, validateUser makes no update call when the
\* authority's contact list equals the expected list as an ordered sequence,
\* and exactly one update call carrying the expected list when they differ in
\* an element, in length or in order.
C7_UpdateIffContactDiffers ==
    (last = "validateUser" /\ calls[1].ok)
    => /\ calls[1].op = "GetReg"
       /\ IF calls[1].contact = getContact
          THEN Len(calls) = 1
          ELSE /\ Len(calls) = 2
               /\ calls[2].op = "UpdateReg"
               /\ calls[2].uri = accountURI
               /\ calls[2].contact = getContact

C7_Witness ==
    /\ last = "validateUser"
    /\ Len(calls) = 2
    /\ calls[1].ok
    /\ calls[1].contact = <<MailtoA, MailtoB>>
    /\ calls[2].contact = <<MailtoA>>

\* C8: after one successful validateUser, a further validateUser with the same
\* configured email and no outside change at the authority makes exactly one
\* fetch and no update, and leaves the authority's accounts as they were.
C8_ValidationIdempotent ==
    (/\ last = "validateUser"
     /\ start.validated = [uri |-> accountURI, email |-> kubelego.LegoEmail])
    => /\ Ops = <<"GetReg">>
       /\ accounts = start.accounts

C8_Witness ==
    /\ last = "validateUser"
    /\ start.validated = [uri |-> accountURI, email |-> kubelego.LegoEmail]
    /\ pc = "Provisioned"
    /\ persisted.uri = accountURI

\* C9: getUser followed by validateUser never writes the store: its content is
\* the one the run began with whether they succeed or fail, also when the
\* contact is updated at the authority.
C9_ExistingPathLeavesStore ==
    (last \in {"getUser", "validateUser"})
    => /\ store = start.store
       /\ CallsOf("SaveAcmeUser") = <<>>

C9_Witness ==
    /\ last = "validateUser"
    /\ pc = "Provisioned"
    /\ Len(CallsOf("UpdateReg")) = 1
    /\ accounts # start.accounts
    /\ store = start.store

\* The private-key entry is one getUser can decode.
KeyEntryLoads ==
    /\ AcmePrivateKey \in DOMAIN store
    /\ store[AcmePrivateKey].pem
    /\ store[AcmePrivateKey].Bytes.enc = "PKCS1"

\* C10: getUser takes the account URI from the direct registration-URI entry
\* whenever it is present, whatever the legacy blob holds, and from the URI
\* field of the legacy JSON blob only when the direct entry is absent; a store
\* with only a private key and a legacy blob {"URI": u} loads with URI u.
C10_UriResolution ==
    /\ (last = "getUser" /\ err = NoError)
       => IF AcmeRegistrationUrl \in DOMAIN store
          THEN accountURI = store[AcmeRegistrationUrl]
          ELSE /\ AcmeRegistration \in DOMAIN store
               /\ store[AcmeRegistration].valid
               /\ accountURI = (IF store[AcmeRegistration].hasURI
                                THEN store[AcmeRegistration].URI ELSE "")
    /\ (/\ last = "getUser"
        /\ err # ErrStoreRead
        /\ KeyEntryLoads
        /\ DOMAIN store = {AcmePrivateKey, AcmeRegistration}
        /\ store[AcmeRegistration].valid
        /\ store[AcmeRegistration].hasURI)
       => /\ err = NoError
          /\ accountURI = store[AcmeRegistration].URI
          /\ pc = "Validating"

C10_Witness ==
    /\ last = "getUser"
    /\ err = NoError
    /\ DOMAIN store = {AcmePrivateKey, AcmeRegistration}
    /\ accountURI = PreUri

\* Successful key generations of this run.
Generated == SelectSeq(calls, LAMBDA c : c.op = "generatePrivateKey" /\ c.ok)

\* C11: for the EC family generatePrivateKey takes the curve the size names for
\* 224, 256, 384 and 521, and the curve of size 384 for every other size, which
\* is generated like any other and not refused.
C11_EcCurveOfSize ==
    (kubelego.LegoKeyType = KeyTypeEc)
    => \A i \in 1..Len(Generated) :
          /\ Generated[i].key.family = "ec"
          /\ Generated[i].key.curve =
                (IF kubelego.LegoKeySize = 224 THEN "P224"
                 ELSE IF kubelego.LegoKeySize = 256 THEN "P256"
                 ELSE IF kubelego.LegoKeySize = 521 THEN "P521"
                 ELSE "P384")

C11_Witness ==
    /\ kubelego.LegoKeyType = KeyTypeEc
    /\ kubelego.LegoKeySize = 512
    /\ pc = "Provisioned"
    /\ Len(Generated) = 1
    /\ Generated[1].key.curve = "P384"

\* C12: every successful generatePrivateKey returns a PEM block whose type tag
\* is that of the configured family ("RSA PRIVATE KEY" holding PKCS#1, "EC
\* PRIVATE KEY" holding SEC 1) and which the family's parse routine decodes to
\* the key of the returned signer.
C12_PemRoundTrip ==
    \A i \in 1..Len(Generated) :
       LET block == PemDecode(Generated[i].pem) IN
       /\ ~block.nil
       /\ IF kubelego.LegoKeyType = KeyTypeRsa
          THEN /\ block.Type = "RSA PRIVATE KEY"
               /\ block.Bytes.enc = "PKCS1"
               /\ ParsePKCS1PrivateKey(block.Bytes) = [key |-> Generated[i].key, err |-> NoError]
          ELSE /\ block.Type = "EC PRIVATE KEY"
               /\ block.Bytes.enc = "SEC1"
               /\ ParseECPrivateKey(block.Bytes) = [key |-> Generated[i].key, err |-> NoError]

C12_Witness ==
    /\ kubelego.LegoKeyType = KeyTypeEc
    /\ Len(Generated) = 1
    /\ Generated[1].pem.Type = "EC PRIVATE KEY"
    /\ Generated[1].key.curve = "P521"

IsPrefix(p, q) == Len(p) <= Len(q) /\ \A i \in 1..Len(p) : p[i] = q[i]

\* Every call of the run but the last succeeded, and the run returned an error
\* exactly when the last one failed.
StoppedAtFirstFailure ==
    /\ calls # <<>>
    /\ \A i \in 1..(Len(calls) - 1) : calls[i].ok
    /\ (err # NoError) <=> ~calls[Len(calls)].ok
    /\ (err # NoError) <=> (pc = "Failed")

\* C13: createUser attempts key generation, Register and the store write in
\* that order, validateUser the fetch and then the update; each step runs at
\* most once, the first failure makes the function return an error and no
\* later step runs, so a failed key generation or Register leaves the store as
\* it was and a failed fetch is followed by no update.
C13_FailFast ==
    /\ (last = "createUser")
       => /\ IsPrefix(Ops, <<"generatePrivateKey", "Register", "SaveAcmeUser">>)
          /\ StoppedAtFirstFailure
          /\ (err = NoError => Len(calls) = 3)
          /\ (Len(calls) < 3 => store = start.store)
    /\ (last = "validateUser")
       => /\ IsPrefix(Ops, <<"GetReg", "UpdateReg">>)
          /\ StoppedAtFirstFailure

C13_Witness ==
    /\ last = "createUser"
    /\ Ops = <<"generatePrivateKey", "Register">>
    /\ ~calls[2].ok
    /\ pc = "Failed"
    /\ store = start.store

\* C14: getUser returns an error, with no call to the authority and no store
\* write, whenever the store read fails, the private-key entry is absent, or
\* the registration-URI entry and the legacy blob are both absent; a missing
\* private key is reported even when a URI entry is present.
C14_MissingDataIsAnError ==
    (/\ last = "getUser"
     /\ \/ err = ErrStoreRead
        \/ AcmePrivateKey \notin DOMAIN store
        \/ DOMAIN store \cap {AcmeRegistrationUrl, AcmeRegistration} = {})
    => /\ err \notin {NoError, ErrPanic}
       /\ pc # "Panicked"
       /\ client = NilClient
       /\ calls = <<>>
       /\ store = start.store
       /\ (err # ErrStoreRead /\ AcmePrivateKey \notin DOMAIN store) => err = ErrNoPrivateKey

\* The configured emails that differ only in letter case from a@x.
CaseVariantsOfA == { <<"a", "@", "x">>, <<"A", "@", "x">> }

\* "mailto:" and the lower-cased configured email, as one contact list.
LowerCasedMailto ==
    IF kubelego.LegoEmail \in CaseVariantsOfA THEN <<MailtoA>> ELSE <<MailtoB>>

\* C15: the contact list sent at registration and at validation is always the
\* single element "mailto:" followed by the lower-cased configured email; so
\* two configured emails that differ only in letter case give the same list,
\* and validating with one after the other makes no update call.
C15_NormalizedContact ==
    /\ \A i \in 1..Len(calls) :
          calls[i].op \in {"Register", "UpdateReg"}
          => /\ Len(calls[i].contact) = 1
             /\ calls[i].contact = LowerCasedMailto
    /\ (/\ last = "validateUser"
        /\ start.validated.uri = accountURI
        /\ start.validated.email \in CaseVariantsOfA
        /\ kubelego.LegoEmail \in CaseVariantsOfA)
       => CallsOf("UpdateReg") = <<>>

C15_Witness ==
    /\ last = "validateUser"
    /\ pc = "Provisioned"
    /\ start.validated = [uri |-> accountURI, email |-> <<"a", "@", "x">>]
    /\ kubelego.LegoEmail = <<"A", "@", "x">>
    /\ Ops = <<"GetReg">>
    /\ accounts[accountURI].contact = <<MailtoA>>

\* C16: the terms-of-service callback passed to Register answers agreement for
\* every terms URL and logs its informational line naming that URL before it
\* returns, so the line precedes whatever is logged after Register; this
\* program never declines a registration.
C16_TermsAlwaysAccepted ==
    \A i \in 1..Len(calls) :
       (calls[i].op = "Register")
       => /\ calls[i].agreed
          /\ log # <<>>
          /\ log[1] = [level |-> "info", msg |-> MsgTos, arg |-> calls[i].tos]
          /\ calls[i].ok
             => /\ Len(log) = 2
                /\ log[2].msg = MsgCreated
                /\ calls[i].returned.AgreedTerms = calls[i].tos

C16_Witness ==
    /\ last = "createUser"
    /\ pc = "Provisioned"
    /\ calls[2].tos = TosURL2
    /\ calls[2].agreed
    /\ log[1].arg = TosURL2

\* C17: the store is written only after Register has succeeded in the same
\* createUser call; so any registration URI this program wrote is one the
\* authority returned from a successful Register, and the key stored beside it
\* is the key that signed that Register call.
C17_StoredUriWasRegistered ==
    /\ \A i \in 1..Len(calls) :
          (calls[i].op = "SaveAcmeUser")
          => /\ i > 1
             /\ calls[i - 1].op = "Register"
             /\ calls[i - 1].ok
             /\ calls[i].uri = calls[i - 1].returned.URI
             /\ calls[i].key = calls[i - 1].key
    /\ (store # EmptyStore)
       => /\ DOMAIN store = {AcmePrivateKey, AcmeRegistrationUrl}
          /\ store[AcmeRegistrationUrl] \in Registered
          /\ store[AcmePrivateKey].pem
          /\ store[AcmePrivateKey].Bytes.key = accounts[store[AcmeRegistrationUrl]].key

C17_Witness ==
    /\ last = "createUser"
    /\ pc = "Provisioned"
    /\ store[AcmeRegistrationUrl] = UriOf(2)
    /\ store[AcmePrivateKey].Bytes.key = accounts[UriOf(2)].key
    /\ accounts[UriOf(1)].key # accounts[UriOf(2)].key

\* C18: whenever getUser succeeds the account URI it returns is not empty; an
\* empty registration-URI entry or a legacy blob without a URI field makes it
\* fail rather than hand an empty URI to validation.
C18_LoadedUriNotEmpty ==
    (last = "getUser" /\ err = NoError) => accountURI # ""

\* C19: whenever validateUser returns without error the authority's contact
\* list for the account URI is the expected one computed from the configured
\* email, and an update request carries the fetched account with only its
\* contact replaced.
C19_ContactInSync ==
    (last = "validateUser" /\ err = NoError)
    => /\ accountURI \in DOMAIN accounts
       /\ accounts[accountURI].contact = LowerCasedMailto
       /\ account.URI = accountURI
       /\ account.Contact = LowerCasedMailto
       /\ \A i \in 1..Len(calls) :
             (calls[i].op = "UpdateReg")
             => /\ calls[i].sent.Contact = LowerCasedMailto
                /\ calls[i].sent.URI = calls[i].fetched.URI
                /\ calls[i].sent.AgreedTerms = calls[i].fetched.AgreedTerms
                /\ accounts[accountURI].terms = start.accounts[accountURI].terms

C19_Witness ==
    /\ last = "validateUser"
    /\ err = NoError
    /\ Ops = <<"GetReg", "UpdateReg">>
    /\ calls[2].fetched.AgreedTerms = TosURL2
    /\ calls[2].fetched.Contact = <<MailtoA, MailtoB>>
    /\ accounts[accountURI] = [start.accounts[accountURI] EXCEPT !.contact = <<MailtoA>>]

====
